---- MODULE Spec2Model ----
(***************************************************************************)
(* TinyLink: the link registry behind the HTTP handlers                    *)
(*   POST   /api/links          create a link                              *)
(*   GET    /api/links          list the links                             *)
(*   GET    /api/links/:code    stats of one link                          *)
(*   DELETE /api/links/:code    delete a link                              *)
(*   GET    /:code              count a click and redirect                 *)
(* Every handler is an async function: it runs without interruption from   *)
(* one `await` to the next, and other requests run in between.  Each store *)
(* call on prisma.link is one atomic statement of the database.  A step    *)
(* of the model is one store call of one request together with the         *)
(* handler code that runs on its result up to the next store call.         *)
(*                                                                         *)
(* A JavaScript string is a sequence of one-character strings, so that the *)
(* regular expression, the URL parser and the code generator are computed  *)
(* character by character.                                                 *)
(***************************************************************************)
EXTENDS Integers, Sequences, FiniteSets, TLC

VARIABLES
    store,     \* the rows of the Link table, in insertion order
    now,       \* the clock: the last timestamp handed out
    call,      \* per request: the handler invoked and its inputs
    pc,        \* per request: the store call the handler is waiting to make
    local,     \* per request: the handler's local variables
    resp,      \* per request: the response returned
    storeOps,  \* per request: the store calls made so far
    links,     \* dashboard: the list displayed
    loading,   \* dashboard: the first load of the list is in flight
    error,     \* dashboard: the first load failed
    formLoading,        \* dashboard: a create request is in flight
    pendingDeleteCode,  \* dashboard: the code whose delete awaits confirmation
    task       \* dashboard: per call of an async handler, where it stands

vars == <<store, now, call, pc, local, resp, storeOps,
          links, loading, error, formLoading, pendingDeleteCode, task>>

\* The state of the dashboard page
pageVars == <<links, loading, error, formLoading, pendingDeleteCode, task>>

\* The state of the requests the server handles
handlerVars == <<call, pc, local, resp, storeOps>>

---------------------------------------------------------------------------
(* Characters *)

Upper == <<"A","B","C","D","E","F","G","H","I","J","K","L","M",
           "N","O","P","Q","R","S","T","U","V","W","X","Y","Z">>

Lower == <<"a","b","c","d","e","f","g","h","i","j","k","l","m",
           "n","o","p","q","r","s","t","u","v","w","x","y","z">>

Digits == <<"0","1","2","3","4","5","6","7","8","9">>

Range(s) == { s[i] : i \in 1..Len(s) }

AsciiAlpha == Range(Upper) \cup Range(Lower)

AsciiAlphanumeric == AsciiAlpha \cup Range(Digits)

\* String.prototype.toLowerCase on one ASCII character
ToLower(c) ==
    IF c \in Range(Upper)
    THEN Lower[CHOOSE i \in 1..Len(Upper) : Upper[i] = c]
    ELSE c

\* `undefined`: the value of a property the JSON body does not have.  It is
\* no string: its one element is not a character.
Undefined == <<"undefined">>

\* A test that takes every string, the empty one too, for a value
TruthyNonNull(v) == v # Undefined

\* JavaScript truthiness of a string-or-undefined value
Truthy(v) == v # Undefined /\ v # <<>>

\* `null` for a timestamp column (timestamps are >= 0)
Null == -1

---------------------------------------------------------------------------
(* POST /api/links: validation *)

CodeMinLen == 6

CodeMaxLen == 8

\* The pattern without its upper bound: /^[A-Za-z0-9]{6,}$/
CODE_REGEX_NoMax(code) ==
    /\ Len(code) >= CodeMinLen
    /\ \A i \in 1..Len(code) : code[i] \in AsciiAlphanumeric

\* CODE_REGEX = /^[A-Za-z0-9]{6,8}$/ and CODE_REGEX.test(code)
CODE_REGEX(code) ==
    /\ Len(code) >= CodeMinLen
    /\ Len(code) <= CodeMaxLen
    /\ \A i \in 1..Len(code) : code[i] \in AsciiAlphanumeric

\* The URL parser strips leading and trailing spaces from its input.
RECURSIVE StripLeading(_)
StripLeading(s) ==
    IF s # <<>> /\ Head(s) = " " THEN StripLeading(Tail(s)) ELSE s

RECURSIVE StripTrailing(_)
StripTrailing(s) ==
    IF s # <<>> /\ s[Len(s)] = " "
    THEN StripTrailing(SubSeq(s, 1, Len(s) - 1))
    ELSE s

SchemeChars == AsciiAlphanumeric \cup {"+", "-", "."}

\* Schemes whose URLs must have a host
SpecialSchemes == { <<"h","t","t","p">>, <<"h","t","t","p","s">>,
                    <<"f","t","p">>, <<"w","s">>, <<"w","s","s">> }

ParseFailure == [ok |-> FALSE, protocol |-> <<>>, host |-> <<>>]

RECURSIVE SkipSlashes(_)
SkipSlashes(s) ==
    IF s # <<>> /\ Head(s) \in {"/", "\\"} THEN SkipSlashes(Tail(s)) ELSE s

\* The host of a special URL: up to the first "/", "?" or "#".
HostOf(rest) ==
    LET stops == { i \in 1..Len(rest) : rest[i] \in {"/", "?", "#"} }
        end == IF stops = {} THEN Len(rest)
               ELSE (CHOOSE i \in stops : \A j \in stops : i <= j) - 1
    IN SubSeq(rest, 1, end)

\* new URL(url) with no base: the scheme is an ASCII letter followed by
\* letters, digits, "+", "-" and ".", up to the first ":"; it is lowercased.
\* Without a scheme the parse fails (there is no base URL).  A special
\* scheme needs a non-empty host without spaces.  The result has the
\* `protocol` property (scheme and ":"); `ok` is FALSE when new URL throws.
URLParse(url) ==
    LET s == StripTrailing(StripLeading(url))
        colons == { i \in 1..Len(s) : s[i] = ":" }
    IN IF s = <<>> \/ colons = {} THEN ParseFailure
       ELSE LET c == CHOOSE i \in colons : \A j \in colons : i <= j
                scheme == [i \in 1..(c - 1) |-> ToLower(s[i])]
                rest == SkipSlashes(SubSeq(s, c + 1, Len(s)))
                host == HostOf(rest)
            IN IF \/ c = 1
                  \/ s[1] \notin AsciiAlpha
                  \/ \E i \in 1..(c - 1) : s[i] \notin SchemeChars
               THEN ParseFailure
               ELSE IF scheme \in SpecialSchemes
               THEN IF host = <<>> \/ \E i \in 1..Len(host) : host[i] = " "
                    THEN ParseFailure
                    ELSE [ok |-> TRUE, protocol |-> scheme \o <<":">>,
                          host |-> host]
               ELSE [ok |-> TRUE, protocol |-> scheme \o <<":">>,
                     host |-> <<>>]

HttpProtocol == <<"h","t","t","p",":">>

HttpsProtocol == <<"h","t","t","p","s",":">>

\* isValidUrl accepting every URL that parses, whatever its scheme
isValidUrlAnyScheme(url) == URLParse(url).ok

\* function isValidUrl(url: string): boolean
isValidUrl(url) ==
    LET parsed == URLParse(url)
    IN IF ~parsed.ok THEN FALSE
       ELSE parsed.protocol = HttpProtocol \/ parsed.protocol = HttpsProtocol

---------------------------------------------------------------------------
(* Code generation *)

\* const chars = 'ABC...XYZabc...xyz0123456789'
chars == Upper \o Lower \o Digits

GeneratedCodeLen == 6

\* randomCode(length) taking one character too few (i < length - 1)
randomCodeShort(draws) ==
    [i \in 1..(GeneratedCodeLen - 1) |-> chars[draws[i] + 1]]

\* randomCode(6): draws[i] is Math.floor(Math.random() * chars.length) of the
\* i-th iteration, an index 0..61 into chars.
randomCode(draws) ==
    [i \in 1..GeneratedCodeLen |-> chars[draws[i] + 1]]

\* The outcomes of Math.random the model considers: NumDraws runs of six
\* indices.  Run d yields the indices d, d+1, ..., d+5 (mod 62).
NumDraws == 2

RandomDraws ==
    { [i \in 1..GeneratedCodeLen |-> (d + i - 1) % Len(chars)] :
        d \in 0..(NumDraws - 1) }

---------------------------------------------------------------------------
(* The store: the Link table behind prisma.link *)

\* The clock is read by `new Date()` and by the store's createdAt default.
\* A read returns the last timestamp again or a later one.
MaxTime == 1

ClockReads == { t \in {now, now + 1} : t <= MaxTime }

\* The row a create({ data: { code, targetUrl } }) inserts: the columns the
\* handler does not give take their defaults.
NewLink(code, targetUrl, t) ==
    [code |-> code, targetUrl |-> targetUrl, totalClicks |-> 0,
     lastClickedAt |-> Null, createdAt |-> t]

RowsOf(s, code) == { i \in 1..Len(s) : s[i].code = code }

\* A lookup that returns the first row of the table, whatever its code
findFirst(s, code) == IF s = <<>> THEN <<>> ELSE <<s[1]>>

\* prisma.link.findUnique({ where: { code } }): <<>> is null
findUnique(s, code) ==
    IF RowsOf(s, code) = {} THEN <<>>
    ELSE <<s[CHOOSE i \in RowsOf(s, code) : \A j \in RowsOf(s, code) : i <= j]>>

\* A table without the unique constraint on code
NoUniqueConstraint(s, code) == FALSE

\* The unique constraint on code: an insert of a code that a row has fails.
UniqueViolation(s, code) == RowsOf(s, code) # {}

\* An update that writes back the count the handler read, plus one
IncrementStale(row, link, ts) ==
    [row EXCEPT !.totalClicks = link.totalClicks + 1, !.lastClickedAt = ts]

\* An update that counts the click and leaves lastClickedAt
IncrementCountOnly(row, link, ts) ==
    [row EXCEPT !.totalClicks = row.totalClicks + 1]

\* An update that counts down
IncrementDown(row, link, ts) ==
    [row EXCEPT !.totalClicks = row.totalClicks - 1, !.lastClickedAt = ts]

\* An update that keeps the first lastClickedAt
IncrementKeepFirstClick(row, link, ts) ==
    [row EXCEPT !.totalClicks = row.totalClicks + 1,
                !.lastClickedAt = IF @ = Null THEN ts ELSE @]

\* An update that writes the row the handler read back, with the new count
\* and timestamp
IncrementWriteBack(row, link, ts) ==
    [link EXCEPT !.totalClicks = row.totalClicks + 1, !.lastClickedAt = ts]

\* update({ where: { code }, data: { totalClicks: { increment: 1 },
\* lastClickedAt: new Date() } }) on the row it finds: the increment is
\* applied by the store to the row's current count.  `link` is the row the
\* handler read before; the update does not use it.
Increment(row, link, ts) ==
    [row EXCEPT !.totalClicks = row.totalClicks + 1, !.lastClickedAt = ts]

\* A delete that leaves the row in the table
RemoveNothing(s, code) == s

\* A delete that empties the table
RemoveAll(s, code) == <<>>

RECURSIVE RemoveCode(_, _)
\* prisma.link.delete({ where: { code } }): the table without that row
RemoveCode(s, code) ==
    IF s = <<>> THEN <<>>
    ELSE IF Head(s).code = code THEN RemoveCode(Tail(s), code)
    ELSE <<Head(s)>> \o RemoveCode(Tail(s), code)

\* Oldest first
AscByCreatedAt(rows) ==
    \A i, j \in 1..Len(rows) : i < j => rows[i].createdAt <= rows[j].createdAt

DescByCreatedAt(rows) ==
    \A i, j \in 1..Len(rows) : i < j => rows[i].createdAt >= rows[j].createdAt

\* prisma.link.findMany({ orderBy: { createdAt: 'desc' } }): the results the
\* store may return, one per order of the rows with equal createdAt
findMany(s) ==
    { [i \in 1..Len(s) |-> s[p[i]]] :
        p \in { q \in [1..Len(s) -> 1..Len(s)] :
                  /\ \A i, j \in 1..Len(s) : i # j => q[i] # q[j]
                  /\ DescByCreatedAt([i \in 1..Len(s) |-> s[q[i]]]) } }

---------------------------------------------------------------------------
(* Requests *)

NoCall == [handler |-> "none", targetUrl |-> Undefined, code |-> Undefined]

NoLocal == [code |-> Undefined, link |-> <<>>, ts |-> Null]

\* status 0: no response yet
NoResp == [status |-> 0, error |-> "", body |-> <<>>, location |-> Undefined]

\* NextResponse.json(body, { status })
Json(status, message, body) ==
    [status |-> status, error |-> message, body |-> body, location |-> Undefined]

\* A redirect that throws on its URL: the catch block answers 500
RedirectToThrows(url) ==
    [status |-> 500, error |-> "Internal server error", body |-> <<>>,
     location |-> Undefined]

\* NextResponse.redirect(url, { status: 302 })
RedirectTo(url) ==
    [status |-> 302, error |-> "", body |-> <<>>, location |-> url]

Requests == DOMAIN pc

\* The request returns `r`.
Return(req, r) ==
    /\ pc' = [pc EXCEPT ![req] = "done"]
    /\ resp' = [resp EXCEPT ![req] = r]
    /\ UNCHANGED pageVars

\* The request goes on to wait for the store call `next`.
Await(req, next) ==
    /\ pc' = [pc EXCEPT ![req] = next]
    /\ resp' = resp
    /\ UNCHANGED pageVars

Did(req, ops) == storeOps' = [storeOps EXCEPT ![req] = @ \cup ops]

---------------------------------------------------------------------------
(* POST /api/links *)

\* A loop whose candidate is the same code at every turn
GenerateStepSameCode(req, draws) ==
    LET code == randomCode([i \in 1..GeneratedCodeLen |-> i - 1])
        existing == findUnique(store, code)
    IN /\ Did(req, {"findUnique"})
       /\ IF existing = <<>>
          THEN /\ local' = [local EXCEPT ![req].code = code]
               /\ Await(req, "create")
          ELSE /\ local' = local
               /\ Await(req, "generate")

\* One iteration of generateUniqueCode's loop: a candidate, the lookup, and
\* either the return to POST (which then waits for create) or another turn.
GenerateStep(req, draws) ==
    LET code == randomCode(draws)
        existing == findUnique(store, code)
    IN /\ Did(req, {"findUnique"})
       /\ IF existing = <<>>
          THEN /\ local' = [local EXCEPT ![req].code = code]
               /\ Await(req, "create")
          ELSE /\ local' = local
               /\ Await(req, "generate")

\* A POST that never takes the supplied code for taken
CodeTakenNever(existing) == FALSE

\* if (existing): the supplied code is taken, POST answers 409
CodeTaken(existing) == existing # <<>>

\* POST that looks the code up before it validates its format
PostLookupFirst(req, body) ==
    /\ pc[req] = "idle"
    /\ call' = [call EXCEPT ![req] = [handler |-> "POST",
                  targetUrl |-> body.targetUrl, code |-> body.code]]
    /\ UNCHANGED <<store, now>>
    /\ IF ~Truthy(body.targetUrl) \/ ~isValidUrl(body.targetUrl)
       THEN /\ Return(req, Json(400, "InvalidTarget", <<>>))
            /\ UNCHANGED <<local, storeOps>>
       ELSE IF Truthy(body.code)
       THEN /\ Did(req, {"findUnique"})
            /\ IF CodeTaken(findUnique(store, body.code))
               THEN /\ Return(req, Json(409, "CodeConflict", <<>>))
                    /\ local' = local
               ELSE IF ~CODE_REGEX(body.code)
               THEN /\ Return(req, Json(400, "InvalidCode", <<>>))
                    /\ local' = local
               ELSE /\ local' = [local EXCEPT ![req].code = body.code]
                    /\ Await(req, "create")
       ELSE \E draws \in RandomDraws : GenerateStep(req, draws)

\* POST from its entry to its first store call and what follows it:
\* validation of targetUrl and code, then the lookup of the supplied code
\* or the first turn of generateUniqueCode.  `body` is the parsed JSON body:
\* targetUrl and code are strings, or Undefined when the body lacks them.
Post(req, body) ==
    /\ pc[req] = "idle"
    /\ call' = [call EXCEPT ![req] = [handler |-> "POST",
                  targetUrl |-> body.targetUrl, code |-> body.code]]
    /\ UNCHANGED <<store, now>>
    /\ IF ~Truthy(body.targetUrl) \/ ~isValidUrl(body.targetUrl)
       THEN /\ Return(req, Json(400, "InvalidTarget", <<>>))
            /\ UNCHANGED <<local, storeOps>>
       ELSE IF Truthy(body.code)
       THEN IF ~CODE_REGEX(body.code)
            THEN /\ Return(req, Json(400, "InvalidCode", <<>>))
                 /\ UNCHANGED <<local, storeOps>>
            ELSE /\ Did(req, {"findUnique"})
                 /\ IF CodeTaken(findUnique(store, body.code))
                    THEN /\ Return(req, Json(409, "CodeConflict", <<>>))
                         /\ local' = local
                    ELSE /\ local' = [local EXCEPT ![req].code = body.code]
                         /\ Await(req, "create")
       ELSE \E draws \in RandomDraws : GenerateStep(req, draws)

\* A later turn of generateUniqueCode's loop
PostGenerate(req) ==
    /\ pc[req] = "generate"
    /\ UNCHANGED <<store, now, call>>
    /\ \E draws \in RandomDraws : GenerateStep(req, draws)

\* A create that stores the code in lower case
PostCreateLowerCase(req) ==
    /\ pc[req] = "create"
    /\ Did(req, {"create"})
    /\ UNCHANGED <<call, local>>
    /\ IF UniqueViolation(store, local[req].code)
       THEN /\ Return(req, Json(500, "Internal server error", <<>>))
            /\ UNCHANGED <<store, now>>
       ELSE \E t \in ClockReads :
              LET lower == [i \in 1..Len(local[req].code) |->
                              ToLower(local[req].code[i])]
                  link == NewLink(lower, call[req].targetUrl, t)
              IN /\ now' = t
                 /\ store' = Append(store, link)
                 /\ Return(req, Json(201, "", <<link>>))

\* prisma.link.create and the 201 response; a violated unique constraint
\* makes create throw, and the catch block answers 500.
PostCreate(req) ==
    /\ pc[req] = "create"
    /\ Did(req, {"create"})
    /\ UNCHANGED <<call, local>>
    /\ IF UniqueViolation(store, local[req].code)
       THEN /\ Return(req, Json(500, "Internal server error", <<>>))
            /\ UNCHANGED <<store, now>>
       ELSE \E t \in ClockReads :
              LET link == NewLink(local[req].code, call[req].targetUrl, t)
              IN /\ now' = t
                 /\ store' = Append(store, link)
                 /\ Return(req, Json(201, "", <<link>>))

---------------------------------------------------------------------------
(* GET /:code: count the click and redirect *)

PathCall(handler, code) ==
    [handler |-> handler, targetUrl |-> Undefined, code |-> code]

\* From the entry to the lookup and what follows it: 404 when there is no
\* link, else the update's data is built (new Date() is read here) and the
\* handler waits for the update.
Redirect(req, code) ==
    /\ pc[req] = "idle"
    /\ call' = [call EXCEPT ![req] = PathCall("REDIRECT", code)]
    /\ store' = store
    /\ IF ~Truthy(code)
       THEN /\ Return(req, Json(400, "Code is required", <<>>))
            /\ UNCHANGED <<now, local, storeOps>>
       ELSE LET link == findUnique(store, code)
            IN /\ Did(req, {"findUnique"})
               /\ IF link = <<>>
                  THEN /\ Return(req, Json(404, "Link not found", <<>>))
                       /\ UNCHANGED <<now, local>>
                  ELSE \E t \in ClockReads :
                         /\ now' = t
                         /\ local' = [local EXCEPT ![req] =
                              [code |-> code, link |-> link, ts |-> t]]
                         /\ Await(req, "update")

\* prisma.link.update and the 302 response; update throws when no row has
\* the code, and the catch block answers 500.
RedirectUpdate(req) ==
    /\ pc[req] = "update"
    /\ Did(req, {"update"})
    /\ UNCHANGED <<now, call, local>>
    /\ LET code == local[req].code
           link == local[req].link[1]
       IN IF RowsOf(store, code) = {}
          THEN /\ Return(req, Json(500, "Internal server error", <<>>))
               /\ store' = store
          ELSE /\ store' = [i \in 1..Len(store) |->
                              IF store[i].code = code
                              THEN Increment(store[i], link, local[req].ts)
                              ELSE store[i]]
               /\ Return(req, RedirectTo(link.targetUrl))

---------------------------------------------------------------------------
(* GET /api/links/:code: stats of one link *)

Stats(req, code) ==
    /\ pc[req] = "idle"
    /\ call' = [call EXCEPT ![req] = PathCall("STATS", code)]
    /\ UNCHANGED <<store, now, local>>
    /\ IF ~Truthy(code)
       THEN /\ Return(req, Json(400, "Code is required", <<>>))
            /\ storeOps' = storeOps
       ELSE LET link == findUnique(store, code)
            IN /\ Did(req, {"findUnique"})
               /\ IF link = <<>>
                  THEN Return(req, Json(404, "Link not found", <<>>))
                  ELSE Return(req, Json(200, "", link))

---------------------------------------------------------------------------
(* DELETE /api/links/:code *)

\* A DELETE without the lookup: it goes straight to the delete
DeleteNoLookup(req, code) ==
    /\ pc[req] = "idle"
    /\ call' = [call EXCEPT ![req] = PathCall("DELETE", code)]
    /\ UNCHANGED <<store, now, storeOps>>
    /\ local' = [local EXCEPT ![req] =
                   [code |-> code, link |-> <<>>, ts |-> Null]]
    /\ Await(req, "delete")

\* From the entry to the lookup: 404 when there is no link, else the
\* handler waits for the delete.
Delete(req, code) ==
    /\ pc[req] = "idle"
    /\ call' = [call EXCEPT ![req] = PathCall("DELETE", code)]
    /\ UNCHANGED <<store, now>>
    /\ IF ~Truthy(code)
       THEN /\ Return(req, Json(400, "Code is required", <<>>))
            /\ UNCHANGED <<local, storeOps>>
       ELSE LET link == findUnique(store, code)
            IN /\ Did(req, {"findUnique"})
               /\ IF link = <<>>
                  THEN /\ Return(req, Json(404, "Link not found", <<>>))
                       /\ local' = local
                  ELSE /\ local' = [local EXCEPT ![req] =
                              [code |-> code, link |-> link, ts |-> Null]]
                       /\ Await(req, "delete")

\* prisma.link.delete and the 200 response; delete throws when no row has
\* the code, and the catch block answers 500.
DeleteDelete(req) ==
    /\ pc[req] = "delete"
    /\ Did(req, {"delete"})
    /\ UNCHANGED <<now, call, local>>
    /\ IF RowsOf(store, local[req].code) = {}
       THEN /\ Return(req, Json(500, "Internal server error", <<>>))
            /\ store' = store
       ELSE /\ store' = RemoveCode(store, local[req].code)
            /\ Return(req, Json(200, "Link deleted successfully", <<>>))

---------------------------------------------------------------------------
(* GET /api/links: list *)

List(req) ==
    /\ pc[req] = "idle"
    /\ call' = [call EXCEPT ![req] = PathCall("LIST", Undefined)]
    /\ UNCHANGED <<store, now, local>>
    /\ Did(req, {"findMany"})
    /\ \E found \in findMany(store) : Return(req, Json(200, "", found))

---------------------------------------------------------------------------
(* The dashboard page.  Each call of an async handler is a task: it runs   *)
(* from its entry to its fetch in one step, and from the settling of the   *)
(* fetch to its end in another; other handlers run in between.  The server *)
(* serves a fetch in one step, or fails it.                                *)

\* `null` for pendingDeleteCode
NullString == <<"null">>

NoTask ==
    [handler |-> "none", pc |-> "idle", code |-> NullString,
     targetUrl |-> Undefined, previous |-> <<>>, res |-> "none"]

\* The page as mounted, with n tasks to come: useState's initial values
PageMounted(n) ==
    /\ links = <<>>
    /\ loading = TRUE
    /\ error = FALSE
    /\ formLoading = FALSE
    /\ pendingDeleteCode = NullString
    /\ task = [t \in 1..n |-> NoTask]

Tasks == DOMAIN task

\* String.prototype.trim, for spaces
Trim(s) == StripTrailing(StripLeading(s))

\* p.filter((l) => l.code !== code)
Without(p, code) == SelectSeq(p, LAMBDA l : l.code # code)

\* The list shows a link with the code.
Shown(p, code) == \E i \in 1..Len(p) : p[i].code = code

\* The task ends with the outcome res.
TaskEnds(t, res) == task' = [task EXCEPT ![t].pc = "done", ![t].res = res]

\* fetchLinks, from the settling of its fetch: the list the server returns,
\* or the error
fetchLinks ==
    /\ loading
    /\ loading' = FALSE
    /\ \/ \E data \in findMany(store) : links' = data /\ error' = FALSE
       \/ links' = links /\ error' = TRUE
    /\ UNCHANGED <<store, now, handlerVars, formLoading, pendingDeleteCode, task>>

\* The Delete button of a row: the rows are rendered when the load has
\* succeeded, and the confirmation overlay covers them.
handleDelete(code) ==
    /\ ~loading /\ ~error
    /\ pendingDeleteCode = NullString
    /\ Shown(links, code)
    /\ pendingDeleteCode' = code
    /\ UNCHANGED <<store, now, handlerVars, links, loading, error, formLoading, task>>

\* The Cancel button of the overlay
cancelDelete ==
    /\ pendingDeleteCode # NullString
    /\ pendingDeleteCode' = NullString
    /\ UNCHANGED <<store, now, handlerVars, links, loading, error, formLoading, task>>

\* confirmDelete up to its fetch: the overlay closes, `previous` is the
\* list of this render, the link leaves the list.
confirmDelete(t) ==
    /\ task[t] = NoTask
    /\ pendingDeleteCode # NullString /\ pendingDeleteCode # <<>>
    /\ pendingDeleteCode' = NullString
    /\ links' = Without(links, pendingDeleteCode)
    /\ task' = [task EXCEPT ![t] =
                  [NoTask EXCEPT !.handler = "confirmDelete", !.pc = "fetch",
                                 !.code = pendingDeleteCode, !.previous = links]]
    /\ UNCHANGED <<store, now, handlerVars, loading, error, formLoading>>

\* confirmDelete from the settling of its fetch: the server deletes the
\* link and answers 200, or answers 404 or 500, or the fetch throws.
confirmDeleteSettled(t) ==
    /\ task[t].handler = "confirmDelete" /\ task[t].pc = "fetch"
    /\ UNCHANGED <<now, handlerVars, loading, error, formLoading, pendingDeleteCode>>
    /\ \/ /\ RowsOf(store, task[t].code) # {}
          /\ store' = RemoveCode(store, task[t].code)
          /\ links' = links
          /\ TaskEnds(t, "ok")
       \/ /\ RowsOf(store, task[t].code) = {}
          /\ store' = store
          /\ links' = task[t].previous
          /\ TaskEnds(t, "404")
       \/ /\ store' = store
          /\ links' = task[t].previous
          /\ TaskEnds(t, "500")
       \/ /\ store' = store
          /\ links' = links
          /\ TaskEnds(t, "throw")

\* handleCreateLink up to its fetch: the checks of the form, then
\* setFormLoading(true) and the request.
handleCreateLink(t, url, customCode) ==
    /\ task[t] = NoTask
    /\ UNCHANGED <<store, now, handlerVars, links, loading, error, pendingDeleteCode>>
    /\ IF \/ Trim(url) = <<>>
          \/ ~isValidUrl(Trim(url))
          \/ customCode # <<>> /\ ~CODE_REGEX(customCode)
       THEN /\ formLoading' = formLoading
            /\ task' = [task EXCEPT ![t] =
                          [NoTask EXCEPT !.handler = "handleCreateLink",
                                         !.pc = "done", !.res = "invalid"]]
       ELSE /\ formLoading' = TRUE
            /\ task' = [task EXCEPT ![t] =
                          [NoTask EXCEPT !.handler = "handleCreateLink",
                                         !.pc = "fetch",
                                         !.targetUrl = Trim(url),
                                         !.code = IF Trim(customCode) = <<>>
                                                  THEN Undefined
                                                  ELSE Trim(customCode)]]

\* handleCreateLink from the settling of its fetch: the server answers 409,
\* or creates the link and answers 201, or answers 500, or the fetch
\* throws; `finally` resets formLoading.
handleCreateLinkSettled(t) ==
    /\ task[t].handler = "handleCreateLink" /\ task[t].pc = "fetch"
    /\ formLoading' = FALSE
    /\ UNCHANGED <<handlerVars, loading, error, pendingDeleteCode>>
    /\ \/ /\ Truthy(task[t].code) /\ RowsOf(store, task[t].code) # {}
          /\ UNCHANGED <<store, now, links>>
          /\ TaskEnds(t, "409")
       \/ \E code \in IF Truthy(task[t].code)
                       THEN {task[t].code}
                       ELSE { randomCode(d) : d \in RandomDraws } :
             \E ts \in ClockReads :
                LET newLink == NewLink(code, task[t].targetUrl, ts)
                IN /\ RowsOf(store, code) = {}
                   /\ store' = Append(store, newLink)
                   /\ now' = ts
                   /\ links' = <<newLink>> \o links
                   /\ TaskEnds(t, "ok")
       \/ /\ UNCHANGED <<store, now, links>>
          /\ TaskEnds(t, "500")
       \/ /\ UNCHANGED <<store, now, links>>
          /\ TaskEnds(t, "throw")

---------------------------------------------------------------------------
(* Inputs and specifications *)

Str6A == randomCode([i \in 1..GeneratedCodeLen |-> i - 1])

UrlA == <<"h","t","t","p","s",":","/","/","a",".","c","o">>

UrlB == <<"h","t","t","p",":","/","/","b",".","i","o","/","x">>

\* The codes requests name: the ones the generator can produce
Codes == { randomCode(d) : d \in RandomDraws }

\* Bodies of the POST requests that run against each other: a valid target
\* and no code, or another valid target and a code the generator can draw
Bodies ==
    { [targetUrl |-> UrlA, code |-> Undefined],
      [targetUrl |-> UrlB, code |-> Str6A] }

\* The table the server starts with: empty, or one link created earlier
InitialStores == { <<>>, <<NewLink(Str6A, UrlA, 0)>> }

NumRequests == 3

InitWith(n, stores) ==
    /\ store \in stores
    /\ now = 0
    /\ call = [r \in 1..n |-> NoCall]
    /\ pc = [r \in 1..n |-> "idle"]
    /\ local = [r \in 1..n |-> NoLocal]
    /\ resp = [r \in 1..n |-> NoResp]
    /\ storeOps = [r \in 1..n |-> {}]
    /\ PageMounted(0)

Init == InitWith(NumRequests, InitialStores)

PostAny == \E req \in Requests : \E body \in Bodies : Post(req, body)

PostGenerateAny == \E req \in Requests : PostGenerate(req)

PostCreateAny == \E req \in Requests : PostCreate(req)

RedirectAny == \E req \in Requests : \E code \in Codes : Redirect(req, code)

RedirectUpdateAny == \E req \in Requests : RedirectUpdate(req)

StatsAny == \E req \in Requests : \E code \in Codes : Stats(req, code)

DeleteAny == \E req \in Requests : \E code \in Codes : Delete(req, code)

DeleteDeleteAny == \E req \in Requests : DeleteDelete(req)

ListAny == \E req \in Requests : List(req)

Next ==
    \/ PostAny
    \/ PostGenerateAny
    \/ PostCreateAny
    \/ RedirectAny
    \/ RedirectUpdateAny
    \/ DeleteAny
    \/ DeleteDeleteAny

\* The requests that write: create, redirect, delete
Spec == Init /\ [][Next]_vars

NextAll ==
    \/ Next
    \/ StatsAny
    \/ ListAny

\* The writing requests together with the reading ones: stats and list
SpecAll == Init /\ [][NextAll]_vars


---------------------------------------------------------------------------
(* POST /api/links alone, over bodies of every shape *)

TargetUrls ==
    { Undefined,
      <<>>,
      <<"a",".","c","o">>,
      <<"/","/","a",".","c","o">>,
      <<"h","t","t","p",":","/","/">>,
      <<"f","t","p",":","/","/","a",".","c","o">>,
      <<"m","a","i","l","t","o",":","a","@","b">>,
      <<"1","h","t","t","p",":","/","/","a">>,
      <<"H","T","T","P","S",":","/","/","A",".","c","o">>,
      <<" ","h","t","t","p",":","a",".","c","o"," ">>,
      UrlA }

SuppliedCodes ==
    { Undefined,
      <<>>,
      <<"a","b","c","1","2">>,
      <<"a","b","c","-","1","2">>,
      <<"a","b","c"," ","1","2","3">>,
      <<"a","b","c","d","e","f","g","h","9">>,
      Str6A,
      <<"a","b","c","1","2","3","4">>,
      <<"Z","z","9","a","b","c","0","1">> }

AllBodies ==
    { [targetUrl |-> u, code |-> c] : u \in TargetUrls, c \in SuppliedCodes }

NumPostRequests == 1

InitPost == InitWith(NumPostRequests, InitialStores)

PostAnyBody == \E req \in Requests : \E body \in AllBodies : Post(req, body)

NextPost ==
    \/ PostAnyBody
    \/ PostGenerateAny
    \/ PostCreateAny

SpecPost == InitPost /\ [][NextPost]_vars

\* Requests of all five handlers on two supplied codes, on a table that is
\* empty or has the first of them
Str7 == <<"a","b","c","1","2","3","4">>

CustomCodes == {Str6A, Str7}

CustomBodies == { [targetUrl |-> UrlB, code |-> c] : c \in CustomCodes }

NumCustomRequests == 3

InitCustom == InitWith(NumCustomRequests, InitialStores)

PostCustom == \E req \in Requests : \E body \in CustomBodies : Post(req, body)

RedirectCustom ==
    \E req \in Requests : \E code \in CustomCodes : Redirect(req, code)

StatsCustom == \E req \in Requests : \E code \in CustomCodes : Stats(req, code)

DeleteCustom ==
    \E req \in Requests : \E code \in CustomCodes : Delete(req, code)

NextCustom ==
    \/ PostCustom
    \/ PostCreateAny
    \/ RedirectCustom
    \/ RedirectUpdateAny
    \/ StatsCustom
    \/ DeleteCustom
    \/ DeleteDeleteAny
    \/ ListAny

SpecCustom == InitCustom /\ [][NextCustom]_vars

NextPostLive ==
    \/ PostAny
    \/ PostGenerateAny
    \/ PostCreateAny

\* POST requests under fair scheduling: a handler that waits for create gets
\* to make it, and every candidate the generator can draw is drawn in some
\* turn of a loop that keeps turning.
NumLiveRequests == 2

InitLive == InitWith(NumLiveRequests, InitialStores)

GenerateWith(req, draws) ==
    /\ pc[req] = "generate"
    /\ UNCHANGED <<store, now, call>>
    /\ GenerateStep(req, draws)

FairLive ==
    \A req \in 1..NumLiveRequests :
        /\ WF_vars(PostCreate(req))
        /\ \A draws \in RandomDraws : WF_vars(GenerateWith(req, draws))

SpecLive == InitLive /\ [][NextPostLive]_vars /\ FairLive

\* Lists and deletes on a table of up to three links, created one after the
\* other at times up to ListMaxTime
Str8 == <<"Z","z","9","a","b","c","0","1">>

ListCodes == {Str6A, Str7, Str8}

ListMaxLinks == 3

ListMaxTime == 2

ListStores ==
    { s \in UNION { [1..n -> { NewLink(c, UrlA, t) :
                                 c \in ListCodes, t \in 0..ListMaxTime }] :
                    n \in 0..ListMaxLinks } :
        \A i, j \in 1..Len(s) :
            i < j => s[i].code # s[j].code /\ s[i].createdAt <= s[j].createdAt }

NumListRequests == 2

InitList ==
    /\ store \in ListStores
    /\ now = IF store = <<>> THEN 0 ELSE store[Len(store)].createdAt
    /\ call = [r \in 1..NumListRequests |-> NoCall]
    /\ pc = [r \in 1..NumListRequests |-> "idle"]
    /\ local = [r \in 1..NumListRequests |-> NoLocal]
    /\ resp = [r \in 1..NumListRequests |-> NoResp]
    /\ storeOps = [r \in 1..NumListRequests |-> {}]
    /\ PageMounted(0)

DeleteListed == \E req \in Requests : \E code \in ListCodes : Delete(req, code)

NextList ==
    \/ ListAny
    \/ DeleteListed
    \/ DeleteDeleteAny

SpecList == InitList /\ [][NextList]_vars

\* The dashboard: its handlers against a server that serves each fetch in
\* one step, on a table of up to two links
PageStores ==
    { <<>>,
      <<NewLink(Str6A, UrlA, 0)>>,
      <<NewLink(Str6A, UrlA, 0), NewLink(Str7, UrlB, 0)>> }

FormTargets == { <<>>, <<"a",".","c","o">>, <<" ">> \o UrlA }

FormCodes == { <<>>, <<"a","b","c","1","2">>, Str8 }

NumPageTasks == 3

InitPage ==
    /\ store \in PageStores
    /\ now = 0
    /\ call = <<>> /\ pc = <<>> /\ local = <<>> /\ resp = <<>>
    /\ storeOps = <<>>
    /\ PageMounted(NumPageTasks)

\* Calls take the tasks in order.
NextTask(t) == \A u \in Tasks : u < t <=> task[u] # NoTask

handleDeleteAny == \E i \in 1..Len(links) : handleDelete(links[i].code)

confirmDeleteAny == \E t \in Tasks : NextTask(t) /\ confirmDelete(t)

confirmDeleteSettledAny == \E t \in Tasks : confirmDeleteSettled(t)

\* The Create button: disabled while formLoading, and under the overlay
\* while a delete awaits confirmation
handleCreateLinkClick ==
    /\ ~formLoading
    /\ pendingDeleteCode = NullString
    /\ \E t \in Tasks : \E url \in FormTargets : \E customCode \in FormCodes :
          NextTask(t) /\ handleCreateLink(t, url, customCode)

\* Enter in one of the two inputs
handleCreateLinkEnter ==
    \E t \in Tasks : \E url \in FormTargets : \E customCode \in FormCodes :
        NextTask(t) /\ handleCreateLink(t, url, customCode)

handleCreateLinkSettledAny == \E t \in Tasks : handleCreateLinkSettled(t)

NextPage ==
    \/ fetchLinks
    \/ handleDeleteAny
    \/ cancelDelete
    \/ confirmDeleteAny
    \/ confirmDeleteSettledAny
    \/ handleCreateLinkClick
    \/ handleCreateLinkEnter
    \/ handleCreateLinkSettledAny

SpecPage == InitPage /\ [][NextPage]_vars


---------------------------------------------------------------------------
(* Properties *)

Done(r) == pc[r] = "done"

IsPost(r) == call[r].handler = "POST"

\* The request returns in this step.
Returns(r) == resp[r].status = 0 /\ resp'[r].status # 0

\* C1: in every reachable state the store holds at most one link per code.
C1_OneLinkPerCode ==
    \A i, j \in 1..Len(store) : store[i].code = store[j].code => i = j

\* A second insert of a stored code was attempted, and refused.
C1_Witness ==
    \E r \in Requests :
        /\ IsPost(r) /\ "create" \in storeOps[r] /\ resp[r].status = 500
        /\ RowsOf(store, local[r].code) # {}

\* Two Create requests with the same supplied code that both passed the
\* availability check while no request deletes: they ran concurrently, and
\* the code was unused when each of them looked.
ConcurrentCreates(r1, r2) ==
    /\ r1 # r2
    /\ IsPost(r1) /\ IsPost(r2)
    /\ Truthy(call[r1].code) /\ call[r1].code = call[r2].code
    /\ "create" \in storeOps[r1] /\ "create" \in storeOps[r2]
    /\ \A r \in Requests : call[r].handler # "DELETE"

\* C2: of two concurrent Create requests with the same unused custom code,
\* one ends 201 and the other 409, and neither ends any other way.
C2_OneCreatedOneConflict ==
    \A r1, r2 \in Requests :
        ConcurrentCreates(r1, r2) /\ Done(r1) /\ Done(r2)
            => {resp[r1].status, resp[r2].status} = {201, 409}


\* The redirects of `code` that returned 302
Redirected(code) ==
    { r \in Requests : /\ call[r].handler = "REDIRECT" /\ call[r].code = code
                       /\ resp[r].status = 302 }

\* No request creates or deletes: the links are those of the initial table,
\* which start with no clicks.
OnlyRedirectsAndReads ==
    \A r \in Requests : call[r].handler \notin {"POST", "DELETE"}

\* C3: while no link is created or deleted, each link's totalClicks is the
\* number of redirects of its code that have returned 302, however the
\* redirects interleave; and no such redirect fails.
C3_NoLostClick ==
    OnlyRedirectsAndReads =>
        /\ \A i \in 1..Len(store) :
              store[i].totalClicks = Cardinality(Redirected(store[i].code))
        /\ \A r \in Requests :
              call[r].handler = "REDIRECT" /\ Done(r)
              /\ RowsOf(store, call[r].code) # {}
                  => resp[r].status = 302

\* Two redirects of one code both read the link before either updated it,
\* and both have updated it.
C3_Witness ==
    /\ OnlyRedirectsAndReads
    /\ \E r1, r2 \in Requests :
          /\ r1 # r2
          /\ r1 \in Redirected(call[r1].code)
          /\ r2 \in Redirected(call[r1].code)
          /\ local[r1].link[1].totalClicks = 0
          /\ local[r2].link[1].totalClicks = 0

\* C4: a redirect ends with 302 or with 404, also when a Delete of its code
\* runs between its existence check and its update.
C4_RedirectFoundOrNotFound ==
    \A r \in Requests :
        call[r].handler = "REDIRECT" /\ Done(r) => resp[r].status \in {302, 404}

\* C5: a Create request with a valid targetUrl and no code ends in 201.
C5_GeneratedCreateSucceeds ==
    \A r \in Requests :
        IsPost(r) /\ call[r].code = Undefined /\ Done(r)
            => resp[r].status = 201

\* C6: a Create request whose supplied code is stored when the handler
\* looks it up returns 409, and the step changes no row of the store.
C6_ConflictLeavesStore ==
    [][\A r \in Requests :
          /\ pc[r] = "idle" /\ call'[r].handler = "POST"
          /\ Truthy(call'[r].targetUrl) /\ URLParse(call'[r].targetUrl).ok
          /\ URLParse(call'[r].targetUrl).protocol \in {HttpProtocol, HttpsProtocol}
          /\ Truthy(call'[r].code)
          /\ RowsOf(store, call'[r].code) # {}
          => /\ resp'[r].status = 409
             /\ resp'[r].error = "CodeConflict"
             /\ pc'[r] = "done"
             /\ store' = store]_vars

\* A Create was refused with 409 for a code whose link has clicks, next to
\* another link.
C6_Witness ==
    \E r \in Requests :
        /\ IsPost(r) /\ resp[r].status = 409
        /\ Len(store) >= 2
        /\ \E i \in 1..Len(store) :
              store[i].code = call[r].code /\ store[i].totalClicks > 0

\* C7: a Create request without a code that returns 201 returns a link
\* whose code is 6 characters of [A-Za-z0-9], that no row had before the
\* insert, with totalClicks 0 and lastClickedAt null, and stores that link.
C7_GeneratedLink ==
    [][\A r \in Requests :
          /\ call[r].handler = "POST" /\ call[r].code = Undefined
          /\ Returns(r) /\ resp'[r].status = 201
          => LET link == resp'[r].body[1]
             IN /\ Len(link.code) = 6
                /\ \A i \in 1..Len(link.code) : link.code[i] \in AsciiAlphanumeric
                /\ \A i \in 1..Len(store) : store[i].code # link.code
                /\ link.totalClicks = 0
                /\ link.lastClickedAt = Null
                /\ link.targetUrl = call[r].targetUrl
                /\ store' = Append(store, link)]_vars

\* A generated code was stored next to an earlier link.
C7_Witness ==
    \E r \in Requests :
        /\ IsPost(r) /\ call[r].code = Undefined /\ resp[r].status = 201
        /\ Len(store) >= 2
        /\ resp[r].body[1].code # Str6A


\* The targetUrl is present, parses as an absolute URL and has the scheme
\* http or https.
HttpTarget(u) ==
    /\ u # Undefined
    /\ URLParse(u).ok
    /\ URLParse(u).protocol \in {HttpProtocol, HttpsProtocol}

\* The code is 6 to 8 characters, each a letter or a digit.
MatchesCodePattern(c) ==
    /\ Len(c) \in 6..8
    /\ \A i \in 1..Len(c) : c[i] \in Range(Upper) \cup Range(Lower) \cup Range(Digits)

\* C8: a Create request with a valid targetUrl and a supplied code that
\* does not match ^[A-Za-z0-9]{6,8}$ returns 400 InvalidCode and has made
\* no store call.
C8_BadCodeRejected ==
    \A r \in Requests :
        /\ IsPost(r) /\ HttpTarget(call[r].targetUrl)
        /\ call[r].code # Undefined /\ ~MatchesCodePattern(call[r].code)
        => /\ Done(r)
           /\ resp[r].status = 400 /\ resp[r].error = "InvalidCode"
           /\ storeOps[r] = {}

\* C8 as amended: the same for every supplied code that is not the empty
\* string.
C8_NonEmptyBadCodeRejected ==
    \A r \in Requests :
        /\ IsPost(r) /\ HttpTarget(call[r].targetUrl)
        /\ call[r].code # Undefined /\ call[r].code # <<>>
        /\ ~MatchesCodePattern(call[r].code)
        => /\ Done(r)
           /\ resp[r].status = 400 /\ resp[r].error = "InvalidCode"
           /\ storeOps[r] = {}

\* A code of 9 letters and digits was refused while the table has a link.
C8_Witness ==
    \E r \in Requests :
        /\ IsPost(r) /\ HttpTarget(call[r].targetUrl)
        /\ Len(call[r].code) = 9 /\ call[r].code # Undefined
        /\ resp[r].status = 400
        /\ store # <<>>

\* C9: a Create request whose targetUrl is missing, does not parse as an
\* absolute URL or has another scheme than http and https returns 400
\* InvalidTarget, whatever its code.
C9_BadTargetRejected ==
    \A r \in Requests :
        IsPost(r) /\ ~HttpTarget(call[r].targetUrl)
        => /\ Done(r)
           /\ resp[r].status = 400 /\ resp[r].error = "InvalidTarget"

\* A URL that parses but has another scheme was refused although its code
\* is valid and unused.
C9_Witness ==
    \E r \in Requests :
        /\ IsPost(r) /\ resp[r].status = 400
        /\ call[r].targetUrl # Undefined
        /\ URLParse(call[r].targetUrl).ok
        /\ call[r].code # Undefined /\ MatchesCodePattern(call[r].code)
        /\ RowsOf(store, call[r].code) = {}

\* C10: the step in which a Create request returns 400 leaves the store as
\* it is, and the request has made no store call, read or write.
C10_ValidationBeforeStore ==
    [][\A r \in Requests :
          call'[r].handler = "POST" /\ Returns(r) /\ resp'[r].status = 400
          => storeOps'[r] = {} /\ store' = store]_vars

\* A code of the wrong format, which no link has, was refused while the
\* table has a link.
C10_Witness ==
    /\ store # <<>>
    /\ \E r \in Requests :
          /\ IsPost(r) /\ resp[r].error = "InvalidCode"
          /\ RowsOf(store, call[r].code) = {}


\* No request deletes: a link, once stored, stays.
NoDelete == \A r \in Requests : call[r].handler # "DELETE"

\* The count the redirect read at its lookup
ReadCount(r) == local[r].link[1].totalClicks

\* The redirects of `code` that returned 302 ran one after the other: each
\* read a count of its own, so each looked the link up after the update of
\* the one before.
Sequential(code) ==
    \A r1, r2 \in Redirected(code) : r1 # r2 => ReadCount(r1) # ReadCount(r2)

\* C11: after N sequential redirects of a fresh link that returned 302, the
\* link has totalClicks = N and lastClickedAt is the timestamp of the last
\* of them (null when N = 0).
C11_SequentialClicks ==
    NoDelete =>
        \A i \in 1..Len(store) :
            LET code == store[i].code
                n == Cardinality(Redirected(code))
            IN Sequential(code) =>
                 /\ store[i].totalClicks = n
                 /\ n = 0 => store[i].lastClickedAt = Null
                 /\ \A r \in Redirected(code) :
                       ReadCount(r) = n - 1 => store[i].lastClickedAt = local[r].ts

\* Two redirects ran one after the other, at different times, and the link
\* has the timestamp of the second.
C11_Witness ==
    /\ NoDelete
    /\ \E r1, r2 \in Requests :
          /\ r1 \in Redirected(call[r1].code)
          /\ r2 \in Redirected(call[r1].code)
          /\ ReadCount(r1) = 0 /\ ReadCount(r2) = 1
          /\ local[r1].ts < local[r2].ts
          /\ \E i \in 1..Len(store) :
                /\ store[i].code = call[r1].code
                /\ store[i].totalClicks = 2
                /\ store[i].lastClickedAt = local[r2].ts

\* C13: a Delete of a code that no link has returns 404 and leaves the
\* store as it is.
C13_DeleteMissing ==
    [][\A r \in Requests :
          /\ pc[r] = "idle" /\ call'[r].handler = "DELETE"
          /\ RowsOf(store, call'[r].code) = {}
          => /\ resp'[r].status = 404
             /\ pc'[r] = "done"
             /\ store' = store]_vars

\* A code was deleted by one request, and a second Delete of it returned 404.
C13_Witness ==
    \E r1, r2 \in Requests :
        /\ r1 # r2
        /\ call[r1].handler = "DELETE" /\ call[r2].handler = "DELETE"
        /\ call[r1].code = call[r2].code
        /\ resp[r1].status = 200 /\ resp[r2].status = 404

\* C15: in every step, a link that is stored before and after has
\* totalClicks >= 0 after, and not less than before.
C15_ClicksNeverDecrease ==
    [][\A i \in 1..Len(store) : \A j \in 1..Len(store') :
          store[i].code = store'[j].code
          => /\ store'[j].totalClicks >= store[i].totalClicks
             /\ store'[j].totalClicks >= 0]_vars

\* A link has been clicked three times.
C15_Witness == \E i \in 1..Len(store) : store[i].totalClicks >= 3

\* C16: every stored link whose lastClickedAt is present has
\* lastClickedAt >= createdAt.
C16_ClickedAfterCreated ==
    \A i \in 1..Len(store) :
        store[i].lastClickedAt # Null
            => store[i].lastClickedAt >= store[i].createdAt

\* The request that acts in this step
Acts(r) == pc'[r] # pc[r] \/ resp'[r] # resp[r] \/ storeOps'[r] # storeOps[r]

\* The step is the update of a redirect of `code`.
Clicks(r, code) ==
    /\ pc[r] = "update" /\ Acts(r) /\ local[r].code = code

\* C17: in every step, a link that is stored before and after keeps its
\* code, targetUrl and createdAt; it changes at all only when the step is
\* the update of a redirect of its code, and then only in totalClicks and
\* lastClickedAt.
C17_OnlyClicksChange ==
    [][\A i \in 1..Len(store) : \A j \in 1..Len(store') :
          store[i].code = store'[j].code
          => /\ store'[j].targetUrl = store[i].targetUrl
             /\ store'[j].createdAt = store[i].createdAt
             /\ \/ store'[j] = store[i]
                \/ \E r \in Requests : Clicks(r, store[i].code)]_vars

\* A redirect has updated a link that was deleted and created again, with
\* another targetUrl, after the redirect's lookup: the link keeps its new
\* targetUrl and has one click.
C17_Witness ==
    \E r \in Requests : \E i \in 1..Len(store) :
        /\ r \in Redirected(store[i].code)
        /\ local[r].link[1].targetUrl # store[i].targetUrl
        /\ store[i].totalClicks = 1


\* Table s has no link under the code.
Absent(s, code) == \A i \in 1..Len(s) : s[i].code # code

\* The links table s has under the code
LinksOf(s, code) == { s[i] : i \in RowsOf(s, code) }

\* The request takes its first step in this step, as `handler`.
Starts(r, handler) == pc[r] = "idle" /\ call'[r].handler = handler

\* C12: a Delete that returns 200 leaves no link under its code; on a code
\* without a link, Get and redirect return 404; and a Create whose lookup
\* and insert find no link under its code returns 201 with a link that has
\* totalClicks 0 and lastClickedAt null, which is what the table then has
\* under that code.
C12_DeletedIsGone ==
    [][\A r \in Requests :
          /\ (pc[r] = "delete" /\ resp'[r].status = 200)
                => Absent(store', local[r].code)
          /\ ((Starts(r, "STATS") \/ Starts(r, "REDIRECT"))
                 /\ Absent(store, call'[r].code))
                => (resp'[r].status = 404 /\ store' = store)
          /\ (pc[r] = "create" /\ Acts(r) /\ Absent(store, local[r].code))
                => (/\ resp'[r].status = 201
                    /\ resp'[r].body[1].code = local[r].code
                    /\ resp'[r].body[1].totalClicks = 0
                    /\ resp'[r].body[1].lastClickedAt = Null
                    /\ store' = Append(store, resp'[r].body[1]))]_vars

\* A link was deleted, then a Get of its code returned 404, then a Create
\* with the same code stored a link with the new targetUrl and no clicks.
C12_Witness ==
    \E r1, r2, r3 \in Requests : \E i \in 1..Len(store) :
        /\ call[r1].handler = "DELETE" /\ resp[r1].status = 200
        /\ call[r2].handler = "STATS" /\ resp[r2].status = 404
        /\ call[r3].handler = "POST" /\ resp[r3].status = 201
        /\ call[r1].code = store[i].code
        /\ call[r2].code = store[i].code
        /\ call[r3].code = store[i].code
        /\ store[i].targetUrl = call[r3].targetUrl
        /\ store[i].totalClicks = 0
        /\ store[i].lastClickedAt = Null

\* C14: a step of Get or List leaves the table as it is; Get returns 200
\* with the link the table has under exactly its code, or 404 when the
\* table has none.
C14_ReadsOnly ==
    [][\A r \in Requests :
          Starts(r, "STATS") \/ Starts(r, "LIST")
          => /\ store' = store
             /\ pc'[r] = "done"
             /\ Starts(r, "STATS") =>
                  IF Absent(store, call'[r].code)
                  THEN resp'[r].status = 404
                  ELSE /\ resp'[r].status = 200
                       /\ Len(resp'[r].body) = 1
                       /\ resp'[r].body[1].code = call'[r].code
                       /\ \E i \in 1..Len(store) : store[i] = resp'[r].body[1]]_vars

\* A Get returned the second link of a table of two, after a redirect of it.
C14_Witness ==
    \E r \in Requests :
        /\ call[r].handler = "STATS" /\ resp[r].status = 200
        /\ Len(store) = 2
        /\ resp[r].body = <<store[2]>>
        /\ store[2].totalClicks = 1

\* C18: List returns 200 with exactly the links of the table, each once,
\* newest createdAt first.
C18_ListNewestFirst ==
    [][\A r \in Requests :
          Starts(r, "LIST")
          => LET listed == resp'[r].body
             IN /\ resp'[r].status = 200
                /\ Len(listed) = Len(store)
                /\ \A i \in 1..Len(store) :
                      Cardinality({ k \in 1..Len(listed) : listed[k] = store[i] }) = 1
                /\ \A k \in 1..(Len(listed) - 1) :
                      listed[k].createdAt >= listed[k + 1].createdAt]_vars

\* A List of three links created at t1 < t2 < t3 returned them as t3, t2, t1.
C18_Witness ==
    \E r \in Requests :
        /\ call[r].handler = "LIST" /\ resp[r].status = 200
        /\ Len(store) = 3
        /\ store[1].createdAt < store[2].createdAt
        /\ store[2].createdAt < store[3].createdAt
        /\ resp[r].body = <<store[3], store[2], store[1]>>

\* C19: in every step and for every code: a code without a link gets one
\* only by the create of a POST of that code that returns 201; a code with
\* a link loses it only by the delete of a DELETE of that code that returns
\* 200; and a code that keeps its link keeps it as it is, except for one
\* more click by the update of a redirect of that code.
C19_CodeTransitions ==
    [][\A code \in CustomCodes :
          LET before == LinksOf(store, code)
              after == LinksOf(store', code)
          IN /\ (before = {} /\ after # {}
                   => \E r \in Requests :
                         /\ call[r].handler = "POST" /\ pc[r] = "create"
                         /\ local[r].code = code /\ resp'[r].status = 201)
             /\ (before # {} /\ after = {}
                   => \E r \in Requests :
                         /\ call[r].handler = "DELETE" /\ pc[r] = "delete"
                         /\ local[r].code = code /\ resp'[r].status = 200)
             /\ (before # {} /\ after # {} /\ after # before
                   => \E r \in Requests : \E old \in before : \E new \in after :
                         /\ call[r].handler = "REDIRECT" /\ Clicks(r, code)
                         /\ before = {old} /\ after = {new}
                         /\ new.totalClicks = old.totalClicks + 1)]_vars

\* A code went from no link to a link, was clicked, lost its link and has
\* none: each of the three transitions has happened.
C19_Witness ==
    \E r1, r2, r3 \in Requests :
        /\ call[r1].handler = "POST" /\ resp[r1].status = 201
        /\ call[r2].handler = "REDIRECT" /\ resp[r2].status = 302
        /\ call[r3].handler = "DELETE" /\ resp[r3].status = 200
        /\ call[r1].code = Str7 /\ call[r2].code = Str7 /\ call[r3].code = Str7
        /\ RowsOf(store, Str7) = {}

\* C20: a step of a Create with a supplied code of 6 to 8 letters and
\* digits either leaves the table as it is, or adds one link with exactly
\* that code and the supplied targetUrl and returns it with 201.
C20_CustomCodeKept ==
    [][\A r \in Requests :
          /\ Acts(r) /\ call'[r].handler = "POST"
          /\ MatchesCodePattern(call'[r].code)
          => \/ store' = store
             \/ \E link \in LinksOf(store', call'[r].code) :
                   /\ store' = Append(store, link)
                   /\ link.targetUrl = call'[r].targetUrl
                   /\ resp'[r].status = 201
                   /\ resp'[r].body = <<link>>]_vars

\* A Create with a supplied code of eight characters, upper and lower case,
\* has stored its link under that code.
C20_Witness ==
    \E r \in Requests : \E i \in 1..Len(store) :
        /\ IsPost(r) /\ resp[r].status = 201
        /\ call[r].code = Str8
        /\ store[i].code = Str8
        /\ store[i].targetUrl = call[r].targetUrl


\* A code the generator can draw has no link.
SomeCodeFree == \E code \in Codes : Absent(store, code)

\* A POST without a code is in generateUniqueCode or waits for its create.
Generating(r) ==
    /\ call[r].handler = "POST" /\ ~Truthy(call[r].code)
    /\ pc[r] \in {"generate", "create"}

\* C21: generateUniqueCode's loop is left only with a code, never with an
\* error; and when from some time on a code the generator can draw stays
\* unused, every POST without a code returns.
C21_GenerationReturns ==
    /\ [][\A r \in 1..NumLiveRequests :
             pc[r] = "generate" => pc'[r] \in {"generate", "create"}]_vars
    /\ (<>[]SomeCodeFree)
          => \A r \in 1..NumLiveRequests : Generating(r) ~> Done(r)

\* A POST without a code found its candidate taken and is in the loop, and
\* another code is unused.
C21_Witness ==
    \E r \in Requests :
        /\ Generating(r) /\ pc[r] = "generate"
        /\ SomeCodeFree


\* C22: a redirect returns 302 only in a step that comes after its lookup
\* and applies its increment to the link of its code, and the Location is
\* the targetUrl the table has for the code.
C22_RedirectOrder ==
    [][\A r \in Requests :
          call[r].handler = "REDIRECT" /\ Returns(r) /\ resp'[r].status = 302
          => /\ "findUnique" \in storeOps[r]
             /\ "update" \in storeOps'[r] \ storeOps[r]
             /\ \E old \in LinksOf(store, call[r].code) :
                   \E new \in LinksOf(store', call[r].code) :
                      /\ new.totalClicks = old.totalClicks + 1
                      /\ resp'[r].location = new.targetUrl]_vars

\* C23: a step of a redirect request that does not return 302 leaves the
\* table as it is, so a redirect that ends in 400, 404 or 500 has modified
\* no row.
C23_FailedRedirectWritesNothing ==
    [][\A r \in Requests :
          call'[r].handler = "REDIRECT" /\ Acts(r) /\ resp'[r].status # 302
          => store' = store]_vars

\* A redirect ended in 500 at its update, and the table has a link, with
\* no click.
C23_Witness ==
    \E r \in Requests :
        /\ call[r].handler = "REDIRECT" /\ resp[r].status = 500
        /\ "update" \in storeOps[r]
        /\ store # <<>>
        /\ \A i \in 1..Len(store) : store[i].totalClicks = 0

\* C24: every stored link has lastClickedAt null exactly when its
\* totalClicks is 0.
C24_ClickedIffCounted ==
    \A i \in 1..Len(store) :
        store[i].lastClickedAt = Null <=> store[i].totalClicks = 0

\* The table has a link that was clicked and a link that was not.
C24_Witness ==
    \E i, j \in 1..Len(store) :
        /\ store[i].totalClicks > 0 /\ store[i].lastClickedAt # Null
        /\ store[j].totalClicks = 0 /\ store[j].lastClickedAt = Null

\* No request creates: a link, once deleted, stays deleted.
NoPost == \A r \in Requests : call[r].handler # "POST"

\* Two Deletes of one code both found the link at their lookup; when
\* nothing creates, both lookups came before either delete.
ConcurrentDeletes(r1, r2) ==
    /\ r1 # r2 /\ NoPost
    /\ call[r1].handler = "DELETE" /\ call[r2].handler = "DELETE"
    /\ call[r1].code = call[r2].code
    /\ local[r1].link # <<>> /\ local[r2].link # <<>>

\* C25: of two concurrent Deletes of one stored code that have returned,
\* one returned 200 and the other 404.
C25_OneDeletedOneNotFound ==
    \A r1, r2 \in Requests :
        ConcurrentDeletes(r1, r2) /\ Done(r1) /\ Done(r2)
            => {resp[r1].status, resp[r2].status} = {200, 404}

\* C26: the link a redirect increments has the targetUrl that the redirect
\* returns as Location.
C26_ClickOnOwnTarget ==
    [][\A r \in Requests : \A i \in 1..Len(store) :
          /\ call[r].handler = "REDIRECT" /\ Clicks(r, store[i].code)
          /\ store'[i].totalClicks = store[i].totalClicks + 1
          => resp'[r].location = store[i].targetUrl]_vars

\* C27: a Create with a valid targetUrl and the empty string as code is
\* not answered at its first step: it goes through generateUniqueCode, and
\* goes on to create only with a code of 6 letters and digits that no link
\* has; when it returns 201, the link it returns has that code and is
\* stored.
C27_EmptyCodeGenerates ==
    [][\A r \in Requests :
          /\ call'[r].handler = "POST" /\ call'[r].code = <<>>
          /\ HttpTarget(call'[r].targetUrl) /\ Acts(r)
          => /\ resp'[r].status \notin {400, 409}
             /\ pc[r] = "idle" => pc'[r] \in {"generate", "create"}
             /\ pc'[r] = "create" =>
                   /\ Len(local'[r].code) = 6
                   /\ \A i \in 1..6 : local'[r].code[i] \in AsciiAlphanumeric
                   /\ Absent(store, local'[r].code)
             /\ resp'[r].status = 201 =>
                   /\ resp'[r].body[1].code = local[r].code
                   /\ resp'[r].body[1].targetUrl = call[r].targetUrl
                   /\ store' = Append(store, resp'[r].body[1])]_vars

\* A Create with the empty string as code has stored a link under a
\* generated code.
C27_Witness ==
    \E r \in Requests : \E i \in 1..Len(store) :
        /\ IsPost(r) /\ call[r].code = <<>> /\ resp[r].status = 201
        /\ store[i] = resp[r].body[1]
        /\ Len(store[i].code) = 6


\* The task's fetch settles in this step.
Settles(t, handler) ==
    /\ task[t].handler = handler
    /\ task[t].pc = "fetch" /\ task'[t].pc = "done"

\* C28: when confirmDelete ends, the list shows the link exactly when the
\* DELETE request did not succeed: it answered other than 2xx, or the
\* fetch threw.
C28_ShownIffDeleteFailed ==
    [][\A t \in Tasks :
          Settles(t, "confirmDelete")
          => (Shown(links', task[t].code) <=> task'[t].res # "ok")]_vars

\* C29: the rollback of a failed delete puts its own link back and changes
\* nothing else: every other link of the list stays, and no other link
\* comes back.
C29_RollbackKeepsOtherChanges ==
    [][\A t \in Tasks :
          Settles(t, "confirmDelete") /\ task'[t].res \in {"404", "500"}
          => /\ \A i \in 1..Len(links) : Shown(links', links[i].code)
             /\ \A i \in 1..Len(links') :
                   \/ links'[i].code = task[t].code
                   \/ Shown(links, links'[i].code)]_vars

\* The create requests of the form that are in flight
CreatesInFlight ==
    { t \in Tasks : task[t].handler = "handleCreateLink" /\ task[t].pc = "fetch" }

\* C30: the form sends a create request only when none is in flight and
\* formLoading is false, and formLoading is false after the step in which
\* a create request ends.
C30_OneCreateInFlight ==
    [][\A t \in Tasks :
          /\ (task[t] = NoTask /\ task'[t].handler = "handleCreateLink"
                 /\ task'[t].pc = "fetch")
                => (CreatesInFlight = {} /\ ~formLoading)
          /\ Settles(t, "handleCreateLink") => ~formLoading']_vars

====
